---- MODULE Spec2Model ----
(***************************************************************************)
(* ChoreQuest icon generator (android/generate_icons.py).                  *)
(*                                                                         *)
(* The script draws one icon per size of a fixed table and saves it as a   *)
(* PNG.  create_play_store_icon is modelled statement group by statement   *)
(* group (one action each, the gradient loop being one); main and the      *)
(* import guard are modelled around it, with the file system as state.     *)
(*                                                                         *)
(* Python's float is the IEEE-754 binary64 format.  The script's results   *)
(* depend on its rounding (int(54 * foreground_scale + translate_x) is 255 *)
(* for size 512, not 256), so the arithmetic is modelled bit-exactly:      *)
(* a float is sgn * man * 2^exp with a 53-bit mantissa held as a sequence  *)
(* of 15-bit limbs, and every operation rounds to nearest, ties to even.   *)
(***************************************************************************)
EXTENDS Integers, Sequences, FiniteSets, TLC

(***************************************************************************)
(* Natural numbers of arbitrary size: little-endian sequences of limbs in  *)
(* 0..LimbBase-1 without leading zero limbs; <<>> is zero.                 *)
(***************************************************************************)
LimbBits == 15

LimbBase == 2^LimbBits

Limb(a, i) == IF i <= Len(a) THEN a[i] ELSE 0

Zeros(n) == [i \in 1..n |-> 0]

RECURSIVE BTrim(_)
BTrim(a) ==
    IF a = <<>> THEN a
    ELSE IF a[Len(a)] = 0 THEN BTrim(SubSeq(a, 1, Len(a) - 1))
    ELSE a

RECURSIVE BFromInt(_)
BFromInt(n) == IF n = 0 THEN <<>> ELSE <<n % LimbBase>> \o BFromInt(n \div LimbBase)

RECURSIVE BToInt(_)
BToInt(a) == IF a = <<>> THEN 0 ELSE a[1] + LimbBase * BToInt(Tail(a))

RECURSIVE BAddFrom(_, _, _, _)
BAddFrom(a, b, i, c) ==
    IF i > Len(a) /\ i > Len(b)
    THEN IF c = 0 THEN <<>> ELSE <<c>>
    ELSE LET s == Limb(a, i) + Limb(b, i) + c
         IN  <<s % LimbBase>> \o BAddFrom(a, b, i + 1, s \div LimbBase)

BAdd(a, b) == BAddFrom(a, b, 1, 0)

\* a - b for a >= b
RECURSIVE BSubFrom(_, _, _, _)
BSubFrom(a, b, i, br) ==
    IF i > Len(a) THEN <<>>
    ELSE LET s == Limb(a, i) - Limb(b, i) - br
         IN  IF s < 0
             THEN <<s + LimbBase>> \o BSubFrom(a, b, i + 1, 1)
             ELSE <<s>> \o BSubFrom(a, b, i + 1, 0)

BSub(a, b) == BTrim(BSubFrom(a, b, 1, 0))

\* -1, 0, 1 as a < b, a = b, a > b
RECURSIVE BCmpFrom(_, _, _)
BCmpFrom(a, b, i) ==
    IF i = 0 THEN 0
    ELSE IF a[i] < b[i] THEN -1
    ELSE IF a[i] > b[i] THEN 1
    ELSE BCmpFrom(a, b, i - 1)

BCmp(a, b) ==
    IF Len(a) < Len(b) THEN -1
    ELSE IF Len(a) > Len(b) THEN 1
    ELSE BCmpFrom(a, b, Len(a))

\* a * k for 0 <= k <= LimbBase
RECURSIVE BMulSmallFrom(_, _, _, _)
BMulSmallFrom(a, k, i, c) ==
    IF i > Len(a)
    THEN IF c = 0 THEN <<>> ELSE <<c>>
    ELSE LET p == a[i] * k + c
         IN  <<p % LimbBase>> \o BMulSmallFrom(a, k, i + 1, p \div LimbBase)

BMulSmall(a, k) == IF k = 0 THEN <<>> ELSE BMulSmallFrom(a, k, 1, 0)

RECURSIVE BMulFrom(_, _, _)
BMulFrom(a, b, j) ==
    IF j > Len(b) THEN <<>>
    ELSE BAdd(Zeros(j - 1) \o BMulSmall(a, b[j]), BMulFrom(a, b, j + 1))

BMul(a, b) == BTrim(BMulFrom(a, b, 1))

\* quotient and remainder of a by n, 1 <= n <= LimbBase
RECURSIVE BDivFrom(_, _, _, _)
BDivFrom(a, n, i, r) ==
    IF i = 0 THEN [q |-> <<>>, r |-> r]
    ELSE LET cur  == r * LimbBase + a[i]
             rest == BDivFrom(a, n, i - 1, cur % n)
         IN  [q |-> Append(rest.q, cur \div n), r |-> rest.r]

BDivSmall(a, n) ==
    LET d == BDivFrom(a, n, Len(a), 0) IN [q |-> BTrim(d.q), r |-> d.r]

BShl(a, k) ==
    IF a = <<>> THEN <<>>
    ELSE Zeros(k \div LimbBits) \o BMulSmall(a, 2^(k % LimbBits))

BShr(a, k) ==
    IF k \div LimbBits >= Len(a) THEN <<>>
    ELSE BDivSmall(SubSeq(a, k \div LimbBits + 1, Len(a)), 2^(k % LimbBits)).q

\* bit k of a, bit 0 the lowest
BBit(a, k) == (Limb(a, k \div LimbBits + 1) \div 2^(k % LimbBits)) % 2

\* a mod 2^k is not zero
BLowNonzero(a, k) ==
    \/ \E i \in 1..(k \div LimbBits) : Limb(a, i) # 0
    \/ Limb(a, k \div LimbBits + 1) % 2^(k % LimbBits) # 0

BitLen(a) ==
    IF a = <<>> THEN 0
    ELSE LimbBits * (Len(a) - 1)
         + (CHOOSE k \in 1..LimbBits : 2^(k - 1) <= a[Len(a)] /\ a[Len(a)] < 2^k)

(***************************************************************************)
(* binary64 arithmetic.  A float is [sgn, man, exp] for sgn * man * 2^exp, *)
(* man of exactly MantBits bits, or FZero.  The values of this program     *)
(* stay far from the overflow and subnormal ranges, so the exponent is     *)
(* unbounded here; the sign of a zero is not observable through int().     *)
(***************************************************************************)
MantBits == 53

FZero == [sgn |-> 1, man |-> <<>>, exp |-> 0]

\* sgn * m * 2^e rounded to nearest, ties to even (m # 0)
FRound(sgn, m, e) ==
    LET len == BitLen(m) IN
    IF len <= MantBits
    THEN [sgn |-> sgn, man |-> BShl(m, MantBits - len), exp |-> e - (MantBits - len)]
    ELSE LET sh   == len - MantBits
             q    == BShr(m, sh)
             up   == BBit(m, sh - 1) = 1 /\ (BLowNonzero(m, sh - 1) \/ q[1] % 2 = 1)
             q2   == IF up THEN BAdd(q, <<1>>) ELSE q
         IN  IF BitLen(q2) > MantBits
             THEN [sgn |-> sgn, man |-> BShr(q2, 1), exp |-> e + sh + 1]
             ELSE [sgn |-> sgn, man |-> q2, exp |-> e + sh]

\* float(n) for a Python int n
FromInt(n) ==
    IF n = 0 THEN FZero
    ELSE FRound(IF n < 0 THEN -1 ELSE 1, BFromInt(IF n < 0 THEN -n ELSE n), 0)

\* x / n for Python ints x >= 0 and 1 <= n <= LimbBase: the correctly rounded
\* quotient.  A decimal literal p.q is the float nearest to it, FDivInt(pq, 10).
DivGuard == 5 * LimbBits

FDivInt(x, n) ==
    IF x = 0 THEN FZero
    ELSE LET d == BDivSmall(BShl(BFromInt(x), DivGuard), n)
         IN  FRound(1, BAdd(BMulSmall(d.q, 2), IF d.r = 0 THEN <<>> ELSE <<1>>),
                    -(DivGuard + 1))

FMul(a, b) ==
    IF a.man = <<>> \/ b.man = <<>> THEN FZero
    ELSE FRound(a.sgn * b.sgn, BMul(a.man, b.man), a.exp + b.exp)

FAdd(a, b) ==
    IF a.man = <<>> THEN b
    ELSE IF b.man = <<>> THEN a
    ELSE LET e  == IF a.exp < b.exp THEN a.exp ELSE b.exp
             am == BShl(a.man, a.exp - e)
             bm == BShl(b.man, b.exp - e)
             c  == BCmp(am, bm)
         IN  IF a.sgn = b.sgn THEN FRound(a.sgn, BAdd(am, bm), e)
             ELSE IF c = 0 THEN FZero
             ELSE IF c > 0 THEN FRound(a.sgn, BSub(am, bm), e)
             ELSE FRound(b.sgn, BSub(bm, am), e)

\* int(f): truncation toward zero
Trunc(f) ==
    IF f.man = <<>> THEN 0
    ELSE IF f.exp >= 0 THEN f.sgn * BToInt(BShl(f.man, f.exp))
    ELSE f.sgn * BToInt(BShr(f.man, -f.exp))

FNeg(a) == [a EXCEPT !.sgn = -a.sgn]

(***************************************************************************)
(* Images.  An image is its mode, its dimensions, the colour Image.new     *)
(* filled it with, the shapes drawn on it in order (ops), and the layers   *)
(* alpha-composited onto it in order: together they determine every pixel. *)
(* Coordinates passed to the drawing calls are kept as given; a shape's    *)
(* box includes both of its corner points.                                 *)
(***************************************************************************)
White == <<255, 255, 255>>

Transparent == <<0, 0, 0, 0>>

SkyBlue == <<74, 144, 226>>

Purple == <<155, 89, 182>>

NoImage == [mode |-> "none", w |-> 0, h |-> 0, fill |-> <<>>, ops |-> <<>>, layers |-> <<>>]

Draw(im, shape, pts, fill) ==
    [im EXCEPT !.ops = Append(@, [shape |-> shape, pts |-> pts, fill |-> fill])]

Convert(im, mode) == [im EXCEPT !.mode = mode]

AlphaComposite(im1, im2) ==
    [mode |-> "RGBA", w |-> im1.w, h |-> im1.h, fill |-> im1.fill, ops |-> im1.ops,
     layers |-> Append(im1.layers, im2)]

\* img = Image.alpha_composite(img.convert('RGBA'), layer).convert('RGB')
CompositeKeepAlpha(im, layer) == AlphaComposite(Convert(im, "RGBA"), layer)

CompositeOnto(im, layer) == Convert(AlphaComposite(Convert(im, "RGBA"), layer), "RGB")

\* rc with rows first..last set to colour c
RECURSIVE FillRows(_, _, _, _)
FillRows(rc, first, last, c) ==
    IF first > last THEN rc
    ELSE IF first = last THEN [rc EXCEPT ![first] = c]
    ELSE LET mid  == (first + last) \div 2
             half == FillRows(rc, first, mid, c)
         IN  IF DOMAIN half = DOMAIN rc
             THEN FillRows(half, mid + 1, last, c)
             ELSE rc

\* rc after one drawing call on im: a rectangle as wide as the image paints the
\* rows between its corner points, both included, clipped to the image
DrawnOn(im, rc, op) ==
    IF op.shape = "rectangle" /\ op.pts[1][1] <= 0 /\ op.pts[2][1] >= im.w - 1
    THEN FillRows(rc, IF op.pts[1][2] < 0 THEN 0 ELSE op.pts[1][2],
                  IF op.pts[2][2] > im.h - 1 THEN im.h - 1 ELSE op.pts[2][2], op.fill)
    ELSE rc

\* rc after the drawing calls first..last of im, in order (drawing keeps the
\* set of rows, so the ELSE branches below are never taken)
RECURSIVE RowsAfter(_, _, _, _)
RowsAfter(im, rc, first, last) ==
    IF first > last THEN rc
    ELSE IF first = last THEN DrawnOn(im, rc, im.ops[first])
    ELSE LET mid  == (first + last) \div 2
             half == RowsAfter(im, rc, first, mid)
         IN  IF DOMAIN half = DOMAIN rc
             THEN RowsAfter(im, half, mid + 1, last)
             ELSE rc

\* The pixel rows of an image on which only rectangles as wide as the image
\* have been drawn: row |-> colour.
Rows(im) == RowsAfter(im, [row \in 0..(im.h - 1) |-> im.fill], 1, Len(im.ops))

(***************************************************************************)
(* create_play_store_icon: the pure parts.                                 *)
(***************************************************************************)
RatioShifted(yy, sz) == FDivInt(yy + 1, sz)

\* ratio = y / size
Ratio(yy, sz) == FDivInt(yy, sz)

\* int(c1 + (c2 - c1) * ratio)
Interp(c1, c2, ratio) == Trunc(FAdd(FromInt(c1), FMul(FromInt(c2 - c1), ratio)))

GradientColor(yy, sz) ==
    LET ratio == Ratio(yy, sz)
    IN  <<Interp(SkyBlue[1], Purple[1], ratio),
          Interp(SkyBlue[2], Purple[2], ratio),
          Interp(SkyBlue[3], Purple[3], ratio)>>

RowBoxAbove(yy, sz) == <<<<0, yy - 1>>, <<sz, yy>>>>

\* [(0, y), (size, y + 1)]
RowBox(yy, sz) == <<<<0, yy>>, <<sz, yy + 1>>>>

\* a decimal literal n/10
Lit10(n) == FDivInt(n, 10)

Lit100(n) == FDivInt(n, 100)

GridUnit == 108

scale(sz) == FDivInt(sz, GridUnit)

foreground_scale(sz) == FMul(Lit10(7), scale(sz))

translate_off(sz) == FMul(Lit10(126), scale(sz))

translate_x(sz) == FMul(Lit10(162), scale(sz))

translate_y(sz) == FMul(Lit10(162), scale(sz))

\* int(54 * foreground_scale + translate_x)
Placed(coord, sz, translate) ==
    Trunc(FAdd(FMul(FromInt(coord), foreground_scale(sz)), translate))

\* int(n * foreground_scale)
Scaled(n, sz) == Trunc(FMul(FromInt(n), foreground_scale(sz)))

\* base + k * (extent * c) with c the literal c10/10, or base + k * extent for c10 = 10
Off(base, k, extent, c10) ==
    IF c10 = 10 THEN FromInt(base + k * extent)
    ELSE LET d == FMul(FromInt(extent), Lit10(c10))
         IN  FAdd(FromInt(base), IF k < 0 THEN FNeg(d) ELSE d)

\* shield_path as <<kx, cx, ky, cy>> per vertex: the vertex is
\* (base_x + kx * shield_size * cx/10, base_y + ky * shield_size * cy/10)
ShieldOffsets ==
    << <<-1, 10, -1, 6>>, <<-1, 7, -1, 9>>, <<0, 10, -1, 11>>, <<1, 7, -1, 9>>,
       <<1, 10, -1, 6>>,  <<1, 10, 1, 3>>,  <<0, 10, 1, 8>>,   <<-1, 10, 1, 3>> >>

\* check_points, likewise
CheckOffsets ==
    << <<-1, 10, 0, 10>>, <<-1, 3, 1, 5>>, <<1, 8, -1, 8>>,
       <<1, 6, -1, 10>>,  <<-1, 3, 1, 2>>, <<-1, 6, -1, 2>> >>

\* the vertices of the table, as floats
PathOf(table, bx, by, s) ==
    [i \in 1..Len(table) |->
        <<Off(bx, table[i][1], s, table[i][2]), Off(by, table[i][3], s, table[i][4])>>]

ShieldPath(bx, by, s) == PathOf(ShieldOffsets, bx, by, s)

\* int(p * 0.85 + base * 0.15)
Inset(p, base) == Trunc(FAdd(FMul(p, Lit100(85)), FMul(FromInt(base), Lit100(15))))

InnerShield(path, bx, by) ==
    [i \in 1..Len(path) |-> <<Inset(path[i][1], bx), Inset(path[i][2], by)>>]

CheckPoints(bx, by, c) == PathOf(CheckOffsets, bx, by, c)

StarOffsetByIndex(i, star_radius) ==
    IF i % 2 = 0
    THEN Trunc(FMul(FromInt(star_radius * (i + 1)), Lit10(7)))
    ELSE Trunc(FMul(FMul(FMul(FromInt(star_radius), Lit10(4)), FromInt(-1)), Lit10(7)))

\* int(radius * (1 if i % 2 == 0 else -1) * 0.7) with
\* radius = star_radius if i % 2 == 0 else star_radius * 0.4
StarOffset(i, star_radius) ==
    IF i % 2 = 0
    THEN Trunc(FMul(FromInt(star_radius * 1), Lit10(7)))
    ELSE Trunc(FMul(FMul(FMul(FromInt(star_radius), Lit10(4)), FromInt(-1)), Lit10(7)))

\* star_points after the loop over range(10); index i of the code is i + 1 here.
\* The loop's angle is computed and never read.
StarPoints(sx, sy, star_radius) ==
    [i \in 1..10 |-> <<sx + StarOffset(i - 1, star_radius),
                      sy + StarOffset(i - 1, star_radius)>>]

(***************************************************************************)
(* Bounds of the model.                                                    *)
(***************************************************************************)
\* sizes 1..MaxSize are passed to a single call of create_play_store_icon
MaxSize == 84

\* sizes 1..MaxCallSize are passed to sequences of up to MaxCalls calls
MaxCallSize == 4

MaxCalls == 3

\* the script is run up to MaxRuns times in succession
MaxRuns == 2

(***************************************************************************)
(* State.                                                                  *)
(*   rpc, frame   position in create_play_store_icon and its locals; a     *)
(*                local not yet assigned holds 0, <<>> or NoImage          *)
(*   trace        the calls of create_play_store_icon that have returned   *)
(*                in this process: size, shield anchor, returned image     *)
(*   pc, it, icon position in the script, main's loop index into sizes,    *)
(*                main's local icon                                        *)
(*   installed    which of the imported packages the environment has       *)
(*   stdout       lines printed by this process                            *)
(*   raised       the exception that ended this process, "" for none       *)
(*   exitCode     exit status, meaningful when pc = "exited"               *)
(*   dirExists, files   the output directory and the files in it           *)
(*   startFs      the directory and files as the process found them        *)
(*   runs, lastExit   number of processes started so far, and the exit     *)
(*                status of the previous one (-1 before the first ends)    *)
(***************************************************************************)
VARIABLES rpc, frame, trace, pc, it, icon, installed, stdout, raised, exitCode,
          dirExists, files, startFs, runs, lastExit

rvars == <<rpc, frame, trace>>

dvars == <<pc, it, icon, installed, stdout, raised, exitCode, dirExists, files,
           startFs, runs, lastExit>>

vars == <<rpc, frame, trace, pc, it, icon, installed, stdout, raised, exitCode,
          dirExists, files, startFs, runs, lastExit>>

NoFrame ==
    [size |-> 0, y |-> 0, img |-> NoImage, yellow_overlay |-> NoImage,
     purple_overlay |-> NoImage, foreground |-> NoImage, base_x |-> 0, base_y |-> 0,
     shield_size |-> 0, shield_path |-> <<>>, check_size |-> 0, star_x |-> 0,
     star_y |-> 0, star_radius |-> 0, star_points |-> <<>>]

(***************************************************************************)
(* create_play_store_icon(size), statement group by statement group.       *)
(***************************************************************************)
ImageNewReused(mode, sz, color) ==
    IF trace = <<>> \/ mode = "RGB" THEN
        [mode |-> mode, w |-> sz, h |-> sz, fill |-> color, ops |-> <<>>, layers |-> <<>>]
    ELSE [mode |-> mode, w |-> sz, h |-> sz, fill |-> color,
          ops |-> trace[Len(trace)].img.layers[3].ops, layers |-> <<>>]

\* Image.new(mode, (size, size), color): a new image of one colour
ImageNew(mode, sz, color) ==
    [mode |-> mode, w |-> sz, h |-> sz, fill |-> color, ops |-> <<>>, layers |-> <<>>]

\* the call: a new frame holding the argument
Call(sz) ==
    /\ rpc = "idle"
    /\ frame' = [NoFrame EXCEPT !.size = sz]
    /\ rpc' = "new"

\* img = Image.new('RGB', (size, size), color='#FFFFFF')
R_New ==
    /\ rpc = "new"
    /\ frame' = [frame EXCEPT !.img = ImageNew("RGB", frame.size, White)]
    /\ rpc' = "gradient"
    /\ UNCHANGED <<trace, dvars>>

\* the drawing calls of `for y in range(size)`, in the order the loop makes them
GradientOps(sz) ==
    [i \in 1..sz |-> [shape |-> "rectangle", pts |-> RowBox(i - 1, sz),
                      fill |-> GradientColor(i - 1, sz)]]

\* the gradient loop, all iterations; y keeps its last value
R_Gradient ==
    /\ rpc = "gradient"
    /\ frame' = [frame EXCEPT !.img.ops = @ \o GradientOps(frame.size),
                              !.y = frame.size - 1]
    /\ rpc' = "yellow"
    /\ UNCHANGED <<trace, dvars>>

\* the gradient pass is over and no overlay has been composited
GradientDone == rpc = "yellow"

\* the yellow accent triangle, composited and flattened
R_Yellow ==
    /\ rpc = "yellow"
    /\ LET sz == frame.size
           overlay == Draw(ImageNew("RGBA", sz, Transparent), "polygon",
                           <<<<0, 0>>, <<sz, sz \div 2>>, <<0, sz>>>>,
                           <<255, 217, 61, 76>>)
       IN  frame' = [frame EXCEPT !.yellow_overlay = overlay,
                                  !.img = CompositeOnto(@, overlay)]
    /\ rpc' = "purple"
    /\ UNCHANGED <<trace, dvars>>

\* the purple overlay, composited and flattened
R_Purple ==
    /\ rpc = "purple"
    /\ LET sz == frame.size
           overlay == Draw(ImageNew("RGBA", sz, Transparent), "rectangle",
                           <<<<0, 0>>, <<sz, sz>>>>, <<155, 89, 182, 153>>)
       IN  frame' = [frame EXCEPT !.purple_overlay = overlay,
                                  !.img = CompositeOnto(@, overlay)]
    /\ rpc' = "geometry"
    /\ UNCHANGED <<trace, dvars>>

\* scale, foreground_scale, translate_x, translate_y, the foreground layer,
\* base_x, base_y, shield_size
R_Geometry ==
    /\ rpc = "geometry"
    /\ frame' = [frame EXCEPT
                    !.foreground = ImageNew("RGBA", frame.size, Transparent),
                    !.base_x = Placed(54, frame.size, translate_x(frame.size)),
                    !.base_y = Placed(54, frame.size, translate_y(frame.size)),
                    !.shield_size = Scaled(26, frame.size)]
    /\ rpc' = "shield"
    /\ UNCHANGED <<trace, dvars>>

\* shield_path, drawn white, and the inner highlight
R_Shield ==
    /\ rpc = "shield"
    /\ LET path == ShieldPath(frame.base_x, frame.base_y, frame.shield_size)
       IN  frame' = [frame EXCEPT
                        !.shield_path = path,
                        !.foreground =
                            Draw(Draw(@, "polygon", path, White), "polygon",
                                 InnerShield(path, frame.base_x, frame.base_y),
                                 <<232, 244, 253>>)]
    /\ rpc' = "check"
    /\ UNCHANGED <<trace, dvars>>

\* the checkmark
R_Check ==
    /\ rpc = "check"
    /\ LET c == Scaled(12, frame.size)
       IN  frame' = [frame EXCEPT
                        !.check_size = c,
                        !.foreground =
                            Draw(@, "polygon", CheckPoints(frame.base_x, frame.base_y, c),
                                 <<39, 174, 96>>)]
    /\ rpc' = "star"
    /\ UNCHANGED <<trace, dvars>>

\* the star
R_Star ==
    /\ rpc = "star"
    /\ LET sx == frame.base_x
           sy == Placed(54 - 34, frame.size, translate_y(frame.size))
           sr == Scaled(6, frame.size)
           pts == StarPoints(sx, sy, sr)
       IN  frame' = [frame EXCEPT
                        !.star_x = sx, !.star_y = sy, !.star_radius = sr,
                        !.star_points = pts,
                        !.foreground = Draw(@, "polygon", pts, <<255, 217, 61>>)]
    /\ rpc' = "composite"
    /\ UNCHANGED <<trace, dvars>>

\* the foreground composited onto the background, flattened
R_Composite ==
    /\ rpc = "composite"
    /\ frame' = [frame EXCEPT !.img = CompositeOnto(@, frame.foreground)]
    /\ rpc' = "return"
    /\ UNCHANGED <<trace, dvars>>

\* return img: the frame is dropped; in main the result is bound to icon
R_Return ==
    /\ rpc = "return"
    /\ trace' = Append(trace, [size |-> frame.size, base_x |-> frame.base_x,
                               base_y |-> frame.base_y, img |-> frame.img])
    /\ icon' = frame.img
    /\ frame' = NoFrame
    /\ rpc' = "idle"
    /\ pc' = IF pc = "call" THEN "save" ELSE pc
    /\ UNCHANGED <<it, installed, stdout, raised, exitCode, dirExists, files,
                   startFs, runs, lastExit>>

Render ==
    \/ R_New
    \/ R_Gradient
    \/ R_Yellow
    \/ R_Purple
    \/ R_Geometry
    \/ R_Shield
    \/ R_Check
    \/ R_Star
    \/ R_Composite
    \/ R_Return

\* the script's constants and the file contents
Packages == {"PIL", "cairosvg"}

output_dir == "play_store_icons"

sizesReversed ==
    << <<1024, "chorequest_icon_1024x1024.png">>,
       <<512, "chorequest_icon_512x512.png">> >>

sizesOneName ==
    << <<512, "chorequest_icon_512x512.png">>,
       <<1024, "chorequest_icon_512x512.png">> >>

\* main's dict sizes, in insertion order, which is the order items() yields
sizes ==
    << <<512, "chorequest_icon_512x512.png">>,
       <<1024, "chorequest_icon_1024x1024.png">> >>

ExistOkOff == FALSE

\* os.makedirs(output_dir, exist_ok=True)
ExistOk == TRUE

\* what icon.save(output_path, 'PNG', quality=100) leaves in the file
Png(im) == [format |-> "PNG", mode |-> im.mode, w |-> im.w, h |-> im.h, image |-> im]

\* a file that a failed save left incomplete
Truncated == [format |-> "PNG", mode |-> "none", w |-> 0, h |-> 0, image |-> NoImage]

(***************************************************************************)
(* Calls of create_play_store_icon from outside the script's main.         *)
(***************************************************************************)
InitUnit ==
    /\ rpc = "idle" /\ frame = NoFrame /\ trace = <<>>
    /\ pc = "unit" /\ it = 0 /\ icon = NoImage
    /\ installed = {"PIL", "cairosvg"}
    /\ stdout = <<>> /\ raised = "" /\ exitCode = 0
    /\ dirExists = FALSE /\ files = <<>>
    /\ startFs = [dir |-> FALSE, files |-> <<>>]
    /\ runs = 0 /\ lastExit = -1

\* the sizes main passes
DriverSizes == {sizes[i][1] : i \in DOMAIN sizes}

\* the first size whose star_radius is 25, where (25 * 0.4) * -1 * 0.7 and
\* (-0.7 * 0.4) * 25 round to different sides of -7
RoundingSizes == {643}

\* one call: any size up to MaxSize, a size main uses, or a rounding-sensitive size
CallOnce ==
    /\ trace = <<>>
    /\ \E sz \in (1..MaxSize) \cup DriverSizes \cup RoundingSizes : Call(sz)
    /\ UNCHANGED <<trace, dvars>>

NextRender == CallOnce \/ Render

SpecRender == InitUnit /\ [][NextRender]_vars

\* up to MaxCalls calls in any order, sizes up to MaxCallSize
CallAgain ==
    /\ Len(trace) < MaxCalls
    /\ \E sz \in 1..MaxCallSize : Call(sz)
    /\ UNCHANGED <<trace, dvars>>

NextCalls == CallAgain \/ Render

SpecCalls == InitUnit /\ [][NextCalls]_vars

(***************************************************************************)
(* The script: the import guard, main, and the file system.                *)
(***************************************************************************)
Exit(code) == pc' = "exited" /\ exitCode' = code

Init ==
    /\ rpc = "idle" /\ frame = NoFrame /\ trace = <<>>
    /\ pc = "import" /\ it = 0 /\ icon = NoImage
    /\ installed \in SUBSET Packages
    /\ stdout = <<>> /\ raised = "" /\ exitCode = 0
    /\ dirExists = FALSE /\ files = <<>>
    /\ startFs = [dir |-> FALSE, files |-> <<>>]
    /\ runs = 1 /\ lastExit = -1

ImportGuardFallsThrough ==
    /\ pc = "import"
    /\ IF Packages \subseteq installed
       THEN pc' = "main" /\ UNCHANGED <<stdout, exitCode>>
       ELSE /\ stdout' = stdout \o <<"Error: Missing required packages.",
                                     "Install with: pip install cairosvg pillow">>
            /\ pc' = "main" /\ UNCHANGED exitCode
    /\ UNCHANGED <<rvars, it, icon, installed, raised, dirExists, files, startFs,
                   runs, lastExit>>

\* try: from PIL import Image, ImageDraw; import cairosvg
\* except ImportError: print, print, sys.exit(1)
ImportGuard ==
    /\ pc = "import"
    /\ IF Packages \subseteq installed
       THEN pc' = "main" /\ UNCHANGED <<stdout, exitCode>>
       ELSE /\ stdout' = stdout \o <<"Error: Missing required packages.",
                                     "Install with: pip install cairosvg pillow">>
            /\ Exit(1)
    /\ UNCHANGED <<rvars, it, icon, installed, raised, dirExists, files, startFs,
                   runs, lastExit>>

\* main up to the loop: makedirs and the two header lines
MakeDirs ==
    /\ pc = "main"
    /\ IF dirExists /\ ~ExistOk
       THEN /\ raised' = "FileExistsError" /\ Exit(1)
            /\ UNCHANGED <<dirExists, stdout, it>>
       ELSE /\ dirExists' = TRUE
            /\ stdout' = stdout \o <<"Generating ChoreQuest Play Store Icons...", "">>
            /\ it' = 1
            /\ pc' = "loop"
            /\ UNCHANGED <<raised, exitCode>>
    /\ UNCHANGED <<rvars, icon, installed, files, startFs, runs, lastExit>>

\* makedirs fails in the environment (permissions, disk): OSError, uncaught
MakeDirsFails ==
    /\ pc = "main"
    /\ raised' = "OSError" /\ Exit(1)
    /\ UNCHANGED <<rvars, it, icon, installed, stdout, dirExists, files, startFs,
                   runs, lastExit>>

\* for size, filename in sizes.items(): print, call create_play_store_icon(size)
LoopNext ==
    /\ pc = "loop"
    /\ it <= Len(sizes)
    /\ stdout' = Append(stdout, <<"Generating ", sizes[it][1], "x", sizes[it][1], " icon...">>)
    /\ Call(sizes[it][1])
    /\ pc' = "call"
    /\ UNCHANGED <<trace, it, icon, installed, raised, exitCode, dirExists, files,
                   startFs, runs, lastExit>>

\* the call fails (Image.new cannot allocate): MemoryError, uncaught
RenderFails ==
    /\ pc = "call"
    /\ rpc = "new"
    /\ raised' = "MemoryError" /\ Exit(1)
    /\ rpc' = "idle" /\ frame' = NoFrame
    /\ UNCHANGED <<trace, it, icon, installed, stdout, dirExists, files, startFs,
                   runs, lastExit>>

\* output_path = join(output_dir, filename); icon.save(...); print
Save ==
    /\ pc = "save"
    /\ files' = (sizes[it][2] :> Png(icon)) @@ files
    /\ stdout' = Append(stdout, <<"Saved: ", output_dir, "/", sizes[it][2]>>)
    /\ it' = it + 1
    /\ pc' = "loop"
    /\ UNCHANGED <<rvars, icon, installed, raised, exitCode, dirExists, startFs,
                   runs, lastExit>>

\* icon.save fails: OSError, uncaught.  The file is untouched when it could not
\* be opened, and may be left incomplete when writing failed.
SaveFails ==
    /\ pc = "save"
    /\ \E damaged \in BOOLEAN :
          files' = IF damaged THEN (sizes[it][2] :> Truncated) @@ files ELSE files
    /\ raised' = "OSError" /\ Exit(1)
    /\ UNCHANGED <<rvars, it, icon, installed, stdout, dirExists, startFs, runs, lastExit>>

\* the loop is exhausted: the closing lines, and main returns
LoopEnd ==
    /\ pc = "loop"
    /\ it > Len(sizes)
    /\ stdout' = stdout \o <<"", "Icon generation complete!",
                             <<"Icons saved in: ", output_dir, "/">>, "",
                             "For Play Store submission, use: chorequest_icon_512x512.png">>
    /\ Exit(0)
    /\ UNCHANGED <<rvars, it, icon, installed, raised, dirExists, files, startFs,
                   runs, lastExit>>

\* the script is started again, on the file system the last process left
Rerun ==
    /\ pc = "exited"
    /\ runs < MaxRuns
    /\ runs' = runs + 1
    /\ lastExit' = exitCode
    /\ startFs' = [dir |-> dirExists, files |-> files]
    /\ installed' \in SUBSET Packages
    /\ pc' = "import" /\ it' = 0 /\ icon' = NoImage
    /\ stdout' = <<>> /\ raised' = "" /\ exitCode' = 0
    /\ rpc' = "idle" /\ frame' = NoFrame /\ trace' = <<>>
    /\ UNCHANGED <<dirExists, files>>

Next ==
    \/ ImportGuard
    \/ MakeDirs
    \/ MakeDirsFails
    \/ LoopNext
    \/ RenderFails
    \/ Render
    \/ Save
    \/ SaveFails
    \/ LoopEnd
    \/ Rerun

Spec == Init /\ [][Next]_vars

(***************************************************************************)
(* Properties of create_play_store_icon, checked under SpecRender.         *)
(***************************************************************************)
Abs(n) == IF n < 0 THEN -n ELSE n

\* the colour of every pixel row of the canvas, rows 0..size-1
RowColors == Rows(frame.img)

\* the largest difference between the two gradient colours over the channels
MaxChannelDiff == Purple[1] - SkyBlue[1]

SquareRGB(im, sz) == im.mode = "RGB" /\ im.w = sz /\ im.h = sz

\* C1: for every size, the canvas is size x size and in mode RGB from its
\* creation on, in particular after each of the three composite passes (the
\* states purple, geometry and return), every composited layer is
\* size x size, and the returned image is size x size, RGB, with three layers.
C1_OpaqueSquare ==
    /\ rpc \notin {"idle", "new"} =>
          /\ SquareRGB(frame.img, frame.size)
          /\ \A i \in 1..Len(frame.img.layers) :
                frame.img.layers[i].w = frame.size /\ frame.img.layers[i].h = frame.size
    /\ rpc = "purple" => Len(frame.img.layers) = 1
    /\ rpc = "geometry" => Len(frame.img.layers) = 2
    /\ rpc = "return" => Len(frame.img.layers) = 3
    /\ \A i \in 1..Len(trace) :
          SquareRGB(trace[i].img, trace[i].size) /\ Len(trace[i].img.layers) = 3

C1_Witness ==
    /\ trace # <<>>
    /\ trace[1].size = 512
    /\ icon = trace[1].img
    /\ icon.mode = "RGB" /\ icon.w = 512

GradientTop(rc) == rc[0] = SkyBlue

GradientBottomNear(rc) ==
    \A c \in 1..3 : Abs(rc[frame.size - 1][c] - Purple[c]) <= 1

GradientMonotone(rc) ==
    \A row \in 0..(frame.size - 2) :
        /\ rc[row][1] <= rc[row + 1][1]
        /\ rc[row][2] >= rc[row + 1][2]
        /\ rc[row][3] >= rc[row + 1][3]

\* C4 as stated: for every size, after the gradient pass the top row is the
\* start colour, the bottom row is within 1 of the end colour in each channel,
\* and R is non-decreasing, G and B non-increasing in y.
C4_GradientEveryPositiveSize ==
    GradientDone =>
        LET rc == RowColors
        IN  GradientTop(rc) /\ GradientBottomNear(rc) /\ GradientMonotone(rc)

\* C4 amended: the top row and the monotonicity hold for every size; the bottom
\* row is within 1 of the end colour exactly when size >= 81, the largest
\* channel difference (the last ratio is (size-1)/size, never 1).
C4_GradientFromSize81 ==
    GradientDone =>
        LET rc == RowColors
        IN  /\ GradientTop(rc)
            /\ GradientMonotone(rc)
            /\ GradientBottomNear(rc) <=> frame.size >= MaxChannelDiff

C4_Witness ==
    /\ GradientDone
    /\ frame.size = MaxChannelDiff
    /\ RowColors[frame.size - 1] = <<154, 89, 182>>

GeometryDone == rpc \in {"shield", "check", "star", "composite", "return"}

\* C5 as stated: base_x / size and base_y / size are the same for any two
\* sizes; here the size of the call against each size main passes.
C5_AnchorRatioConstant ==
    GeometryDone =>
        \A s2 \in DriverSizes :
            /\ frame.base_x * s2 = Placed(54, s2, translate_x(s2)) * frame.size
            /\ frame.base_y * s2 = Placed(54, s2, translate_y(s2)) * frame.size

\* C5 amended: for every size, base_x = base_y and size/2 - 1 <= base_x <= size/2,
\* so the anchor's relative position is within 1/size of 1/2, not constant.
C5_AnchorNearCentre ==
    GeometryDone =>
        /\ frame.base_x = frame.base_y
        /\ frame.size - 2 <= 2 * frame.base_x
        /\ 2 * frame.base_x <= frame.size

\* size 512 gives 255, size 1024 gives 511: not the same ratio
C5_Witness ==
    /\ GeometryDone
    /\ \/ frame.size = 512 /\ frame.base_x = 255
       \/ frame.size = 1024 /\ frame.base_x = 511

\* C9: after the gradient loop every row y in [0, size) holds the colour
\* interpolated for its own ratio y/size: none keeps the white fill, none holds
\* a neighbour's colour.
C9_EveryRowOwnColour ==
    GradientDone =>
        LET rc == RowColors
        IN  \A row \in 0..(frame.size - 1) :
                rc[row] = GradientColor(row, frame.size) /\ rc[row] # White

C9_Witness ==
    /\ GradientDone
    /\ frame.size = 3
    /\ RowColors[2] = GradientColor(2, 3)
    /\ RowColors[2] # GradientColor(1, 3)

StarDone == rpc \in {"composite", "return"}

StarOnDiagonal(d, e) ==
    /\ Len(frame.star_points) = 10
    /\ \A i \in 0..9 :
          frame.star_points[i + 1] =
              IF i % 2 = 0 THEN <<frame.star_x + d, frame.star_y + d>>
              ELSE <<frame.star_x + e, frame.star_y + e>>
    /\ Cardinality({frame.star_points[i] : i \in 1..10}) <= 2

\* C10 as stated: every even vertex is (star_x + d, star_y + d) with
\* d = int(0.7 * star_radius), every odd one (star_x + e, star_y + e) with
\* e = int(-0.7 * 0.4 * star_radius), the products taken as written.
C10_StarOffsetsAsWritten ==
    StarDone =>
        StarOnDiagonal(Trunc(FMul(Lit10(7), FromInt(frame.star_radius))),
                       Trunc(FMul(FMul(FNeg(Lit10(7)), Lit10(4)),
                                  FromInt(frame.star_radius))))

\* C10 amended: the same, with e = int(star_radius * 0.4 * -1 * 0.7) taken in
\* the code's order of multiplication.
C10_StarOffsetsInCodeOrder ==
    StarDone =>
        StarOnDiagonal(Trunc(FMul(FromInt(frame.star_radius), Lit10(7))),
                       Trunc(FMul(FMul(FMul(FromInt(frame.star_radius), Lit10(4)),
                                       FromInt(-1)), Lit10(7))))

C10_Witness ==
    /\ StarDone
    /\ frame.star_radius = 25
    /\ frame.star_points[1] = <<frame.star_x + 17, frame.star_y + 17>>
    /\ frame.star_points[2] = <<frame.star_x - 7, frame.star_y - 7>>

(***************************************************************************)
(* Determinism of create_play_store_icon, checked under SpecCalls.         *)
(***************************************************************************)
\* C8: any two calls with the same size return the same image, whatever was
\* called between them: every call starts from newly created images.
C8_SameSizeSameImage ==
    \A i, j \in 1..Len(trace) :
        trace[i].size = trace[j].size => trace[i].img = trace[j].img

C8_Witness ==
    /\ Len(trace) = 3
    /\ trace[1].size = trace[3].size
    /\ trace[2].size # trace[1].size
    /\ trace[2].img # trace[1].img
    /\ trace[1].img = trace[3].img

(***************************************************************************)
(* Properties of the script, checked under Spec.                           *)
(***************************************************************************)
Name512 == "chorequest_icon_512x512.png"

Name1024 == "chorequest_icon_1024x1024.png"

CapabilityPresent == Packages \subseteq installed

\* the file holds a complete PNG of a size x size RGB image
HoldsRender(f, sz) == f.format = "PNG" /\ f.mode = "RGB" /\ f.w = sz /\ f.h = sz

\* C2: a process that found no output directory and ends with exit status 0
\* has created the directory and left exactly the two files in it, each holding
\* the render of its size; a process that raised nothing and had its imports
\* ends with status 0; no file of another name is ever written; files are
\* written only into an existing directory.
C2_FreshRunWritesTwoFiles ==
    /\ (pc = "exited" /\ exitCode = 0 /\ ~startFs.dir) =>
          /\ dirExists
          /\ DOMAIN files = {Name512, Name1024}
          /\ HoldsRender(files[Name512], 512)
          /\ HoldsRender(files[Name1024], 1024)
          /\ Len(trace) = 2
          /\ files[Name512].image = trace[1].img
          /\ files[Name1024].image = trace[2].img
    /\ (pc = "exited" /\ CapabilityPresent /\ raised = "") => exitCode = 0
    /\ DOMAIN files \subseteq {Name512, Name1024}
    /\ DOMAIN files # {} => dirExists

C2_Witness ==
    /\ pc = "exited" /\ exitCode = 0
    /\ runs = 1 /\ ~startFs.dir
    /\ DOMAIN files = {Name512, Name1024}

\* C3: a process that lacks PIL or cairosvg never gets past the import guard:
\* it has printed the two lines and exited with status 1, main has not run, and
\* the directory and the files are as the process found them.
C3_MissingCapabilityExits ==
    ~CapabilityPresent =>
        /\ pc \in {"import", "exited"}
        /\ dirExists = startFs.dir /\ files = startFs.files
        /\ trace = <<>> /\ rpc = "idle"
        /\ pc = "exited" =>
              /\ exitCode = 1
              /\ raised = ""
              /\ stdout = <<"Error: Missing required packages.",
                            "Install with: pip install cairosvg pillow">>

C3_Witness ==
    /\ pc = "exited" /\ exitCode = 1
    /\ installed = {"PIL"}
    /\ ~dirExists /\ files = <<>>

\* C6: a process started after one that ended with status 0 never fails for the
\* directory or a file existing; if it has its imports and nothing fails in the
\* environment it ends with status 0; and when it ends with status 0 the
\* directory holds the same two names with the same contents as it found.
C6_RerunOverwrites ==
    /\ raised # "FileExistsError"
    /\ (runs >= 2 /\ lastExit = 0) =>
          /\ startFs.dir
          /\ DOMAIN startFs.files = {Name512, Name1024}
          /\ (pc = "exited" /\ CapabilityPresent /\ raised = "") => exitCode = 0
          /\ (pc = "exited" /\ exitCode = 0) => dirExists /\ files = startFs.files

C6_Witness ==
    /\ runs = 2 /\ lastExit = 0
    /\ pc = "exited" /\ exitCode = 0
    /\ files = startFs.files
    /\ HoldsRender(files[Name1024], 1024)

\* C7: the sizes are processed in the order 512, 1024; a raised exception ends
\* the process with status 1 and nothing is undone; when the failure comes in
\* the 1024 iteration the 512 file written by this process is still there, whole;
\* when it comes in makedirs or in the 512 iteration, 1024 was never rendered
\* and its file is as the process found it.
C7_FailureIsFatalNoRollback ==
    /\ \A i \in 1..Len(trace) : i <= 2 /\ trace[i].size = <<512, 1024>>[i]
    /\ pc \in {"call", "save"} => it = Len(trace) + (IF pc = "call" THEN 1 ELSE 0)
    /\ (pc = "call" /\ rpc # "idle") => frame.size = <<512, 1024>>[it]
    /\ raised # "" =>
          /\ pc = "exited" /\ exitCode = 1
          /\ startFs.dir => dirExists
          /\ DOMAIN startFs.files \subseteq DOMAIN files
          /\ it = 2 =>
                /\ Name512 \in DOMAIN files
                /\ files[Name512] = Png(trace[1].img)
                /\ HoldsRender(files[Name512], 512)
          /\ it < 2 =>
                /\ \A i \in 1..Len(trace) : trace[i].size # 1024
                /\ Name1024 \in DOMAIN files =>
                      Name1024 \in DOMAIN startFs.files
                      /\ files[Name1024] = startFs.files[Name1024]

C7_Witness ==
    /\ pc = "exited" /\ raised = "OSError"
    /\ runs = 1 /\ it = 2
    /\ Len(trace) = 2
    /\ Name512 \in DOMAIN files
====
